---- MODULE Spec2Model ----
(***************************************************************************)
(* Model of the Etherscan normal-transactions extractor                    *)
(* (src/src/component.py): Component.run, Component.get_transactions,      *)
(* Component.to_checksum and the __main__ entrypoint with its exit codes.  *)
(*                                                                         *)
(* Python's None / "key absent" is the empty sequence <<>>; a present      *)
(* value v is <<v>>.  A dict is a sequence of <<key, value>> pairs with    *)
(* distinct keys, in the dict's iteration order.  The output file is the   *)
(* sequence of its lines, each line the sequence of its cells.             *)
(***************************************************************************)
EXTENDS Integers, Sequences, FiniteSets, TLC

VARIABLES
    params,         \* self.configuration.parameters
    endpoint,       \* what the remote endpoint answers in this run
    pc,             \* position of the process in __main__ / run()
    exc,            \* the exception in flight: <<>> or <<class name>>
    raised_at,      \* the step that raised it (<<>> when none)
    table,          \* the table definition made by create_out_table_definition
    request,        \* keyword arguments handed to get_transactions_by_address
    calls,          \* number of calls made to the remote endpoint
    transactions,   \* the list returned by get_transactions
    fieldnames,     \* the header derived from the first record
    file,           \* lines of output.csv (<<>> when not created or empty)
    file_open,      \* the with-block holds the file open
    file_created,   \* open(..., 'wt') has created / truncated the file
    rows_done,      \* records consumed so far by writer.writerows
    manifest,       \* <<>> or <<the manifest written>>
    logged,         \* exceptions passed to logging.exception, in order
    exit_code       \* <<>> while running, <<code>> once the process exited

vars == << params, endpoint, pc, exc, raised_at, table, request, calls,
           transactions, fieldnames, file, file_open, file_created,
           rows_done, manifest, logged, exit_code >>

-----------------------------------------------------------------------------
(* Configuration keys                                                      *)

KEY_ADDRESS == "address"
KEY_START_BLOCK == "start_block"
KEY_END_BLOCK == "end_block"
KEY_PAGE == "page"
KEY_OFFSET == "offset"
KEY_SORT == "sort"
KEY_API_KEY == "#api_key"

Keys == { KEY_ADDRESS, KEY_START_BLOCK, KEY_END_BLOCK, KEY_PAGE, KEY_OFFSET,
          KEY_SORT, KEY_API_KEY }

\* A list of mandatory parameters that forgets the API key.
REQUIRED_PARAMETERS_NoApiKey == << KEY_ADDRESS >>

REQUIRED_PARAMETERS == << KEY_ADDRESS, KEY_API_KEY >>

\* Defaults of the optional parameters.
DEFAULT_START_BLOCK == 0
DEFAULT_END_BLOCK == 99999999
DEFAULT_PAGE == 1
DEFAULT_OFFSET == 100
DEFAULT_SORT == "asc"

None == << >>

SeqToSet(s) == { s[i] : i \in 1..Len(s) }

-----------------------------------------------------------------------------
(* Bounds and input sets                                                   *)

MaxRecords == 2

\* Addresses: one account in its checksum form, in lower and in upper case,
\* and two strings that are no account identifier at all.
ChecksumForm == "0xAbC"
WellFormedAddresses == { "0xAbC", "0xabc", "0xABC" }
MalformedAddresses == { "0xzz", "abc" }

AddressInputs == { None } \cup { <<a>> : a \in WellFormedAddresses \cup MalformedAddresses }
ApiKeyInputs == { None, <<"X">> }
StartBlockInputs == { None, <<0>>, <<5>> }
EndBlockInputs == { None, <<0>>, <<9>> }
PageInputs == { None, <<0>>, <<2>> }
OffsetInputs == { None, <<0>>, <<50>> }
SortInputs == { None, <<"">>, <<"asc">>, <<"desc">>, <<"DESC">>, <<"random">> }

\* Fields of a transaction record and the values each may hold.
FieldNames == { "timestamp", "hash" }
FieldValues(k) == IF k = "timestamp" THEN { "100", "200" } ELSE { "0x1", "0x2" }

\* Key orders: the non-empty sequences of distinct field names.
KeyOrders ==
    { ks \in UNION { [1..n -> FieldNames] : n \in 1..Cardinality(FieldNames) } :
        \A i, j \in 1..Len(ks) : i # j => ks[i] # ks[j] }

AllValues == UNION { FieldValues(k) : k \in FieldNames }

RecordsWithKeys(ks) ==
    { [i \in 1..Len(ks) |-> <<ks[i], v[i]>>] :
        v \in { f \in [1..Len(ks) -> AllValues] :
                  \A i \in 1..Len(ks) : f[i] \in FieldValues(ks[i]) } }

Records == UNION { RecordsWithKeys(ks) : ks \in KeyOrders }

Responses == UNION { [1..n -> Records] : n \in 0..MaxRecords }

\* The two-record answer of the end-to-end scenario.
FixtureResponse ==
    << << <<"timestamp", "100">>, <<"hash", "0x1">> >>,
       << <<"timestamp", "200">>, <<"hash", "0x2">> >> >>

Config(a, k, sb, eb, p, o, s) ==
    [ key \in Keys |->
        CASE key = KEY_ADDRESS -> a
          [] key = KEY_API_KEY -> k
          [] key = KEY_START_BLOCK -> sb
          [] key = KEY_END_BLOCK -> eb
          [] key = KEY_PAGE -> p
          [] key = KEY_OFFSET -> o
          [] OTHER -> s ]

\* Every configuration, against an endpoint that fails, answers nothing, or
\* answers the fixture.
ConfigSlice ==
    /\ \E a \in AddressInputs, k \in ApiKeyInputs, sb \in StartBlockInputs,
          eb \in EndBlockInputs, p \in PageInputs, o \in OffsetInputs,
          s \in SortInputs :
            params = Config(a, k, sb, eb, p, o, s)
    /\ endpoint \in { [ok |-> FALSE, records |-> << >>],
                      [ok |-> TRUE, records |-> << >>],
                      [ok |-> TRUE, records |-> FixtureResponse] }

\* Every answer of the endpoint, against the configurations that hold only
\* the required fields.
OutputSlice ==
    /\ \E a \in { <<x>> : x \in WellFormedAddresses } :
            params = Config(a, <<"X">>, None, None, None, None, None)
    /\ endpoint \in { [ok |-> TRUE, records |-> r] : r \in Responses }

-----------------------------------------------------------------------------
(* dict helpers                                                            *)

DictKeys(d) == [ i \in 1..Len(d) |-> d[i][1] ]
HasKey(d, k) == \E i \in 1..Len(d) : d[i][1] = k
DictGet(d, k) == d[CHOOSE i \in 1..Len(d) : d[i][1] = k][2]

-----------------------------------------------------------------------------
(* Python truthiness of a configured value (params.get(key))               *)

TruthyNum(opt) == opt # None /\ opt[1] # 0
TruthyStr(opt) == opt # None /\ opt[1] # ""

\* if params.get(key): value = params.get(key)   -- with a presence test
\* instead of the truthiness test.
NumericOption_PresenceTest(p, key, default) ==
    IF p[key] # None THEN p[key][1] ELSE default

\* The value of a numeric option: the configured one when truthy, else the
\* default.
NumericOption(p, key, default) ==
    IF TruthyNum(p[key]) THEN p[key][1] ELSE default

sort_options == << "asc", "desc" >>

\* The sort option without the membership test.
SortOption_NoMembershipTest(p) ==
    IF TruthyStr(p[KEY_SORT]) THEN p[KEY_SORT][1] ELSE DEFAULT_SORT

\* The sort option: the configured one when truthy and recognized.
SortOption(p) ==
    IF TruthyStr(p[KEY_SORT])
    THEN IF TruthyStr(p[KEY_SORT]) /\ p[KEY_SORT][1] \in SeqToSet(sort_options)
         THEN p[KEY_SORT][1]
         ELSE DEFAULT_SORT
    ELSE DEFAULT_SORT

-----------------------------------------------------------------------------
(* Address Normalizer                                                      *)

is_checksum_address(a) == a = ChecksumForm
\* to_checksum_address raises (ValueError) on anything but a well-formed
\* account identifier.
to_checksum_address_raises(a) == a \notin WellFormedAddresses
to_checksum_address(a) == ChecksumForm

to_checksum_raises(a) == ~is_checksum_address(a) /\ to_checksum_address_raises(a)
to_checksum(a) == IF is_checksum_address(a) THEN a ELSE to_checksum_address(a)

-----------------------------------------------------------------------------
(* Configuration validation (ComponentBase.validate_configuration_parameters) *)

MissingParameters(p, mandatory) ==
    { k \in SeqToSet(mandatory) : p[k] = None }

-----------------------------------------------------------------------------
(* csv.DictWriter(out_file, fieldnames=fieldnames): restval = '',           *)
(* extrasaction = 'raise'                                                  *)

restval == ""

\* Fields of the row that the header does not hold.
WrongFields(names, rowdict) ==
    { k \in SeqToSet(DictKeys(rowdict)) : k \notin SeqToSet(names) }

\* extrasaction = 'ignore': a row never raises.
RowRaises_Ignore(names, rowdict) == FALSE

\* _dict_to_list raises ValueError when the row holds fields that are not in
\* fieldnames.
RowRaises(names, rowdict) == WrongFields(names, rowdict) # {}

\* The cells in the row's own order instead of the header's.
DictToList_RowOrder(names, rowdict) ==
    [ i \in 1..Len(rowdict) |-> rowdict[i][2] ]

\* The cells of a row: the row's values in the header's column order.
DictToList(names, rowdict) ==
    [ i \in 1..Len(names) |->
        IF HasKey(rowdict, names[i]) THEN DictGet(rowdict, names[i]) ELSE restval ]

\* fieldnames = transactions[0].keys() if transactions else []
FieldnamesOf(txs) == IF txs # << >> THEN DictKeys(txs[1]) ELSE << >>

-----------------------------------------------------------------------------
(* Exceptions                                                              *)

USER_EXCEPTION == "UserException"

\* An exception leaves the step: control goes to the handlers of __main__.
Raise(e, step) ==
    /\ exc' = <<e>>
    /\ raised_at' = <<step>>
    /\ pc' = "raised"

-----------------------------------------------------------------------------
Init ==
    /\ ConfigSlice \/ OutputSlice
    /\ pc = "run"
    /\ exc = None
    /\ raised_at = None
    /\ table = None
    /\ request = None
    /\ calls = 0
    /\ transactions = << >>
    /\ fieldnames = << >>
    /\ file = << >>
    /\ file_open = FALSE
    /\ file_created = FALSE
    /\ rows_done = 0
    /\ manifest = None
    /\ logged = << >>
    /\ exit_code = None

\* self.validate_configuration_parameters(REQUIRED_PARAMETERS)
Validate ==
    /\ pc = "run"
    /\ IF MissingParameters(params, REQUIRED_PARAMETERS) # {}
       THEN Raise(USER_EXCEPTION, "validate")
       ELSE pc' = "validated" /\ UNCHANGED << exc, raised_at >>
    /\ UNCHANGED << params, endpoint, table, request, calls, transactions,
                    fieldnames, file, file_open, file_created, rows_done,
                    manifest, logged, exit_code >>

\* The manifest saved as soon as the table definition is made.
CreateOutTableDefinition_SavesManifest ==
    /\ pc = "validated"
    /\ table' = << [ name |-> "output.csv", incremental |-> TRUE,
                     primary_key |-> << "timestamp" >> ] >>
    /\ manifest' = table'
    /\ pc' = "table"
    /\ UNCHANGED << params, endpoint, exc, raised_at, request, calls,
                    transactions, fieldnames, file, file_open, file_created,
                    rows_done, logged, exit_code >>

\* table = self.create_out_table_definition('output.csv', incremental=True,
\*                                           primary_key=['timestamp'])
CreateOutTableDefinition ==
    /\ pc = "validated"
    /\ table' = << [ name |-> "output.csv", incremental |-> TRUE,
                     primary_key |-> << "timestamp" >> ] >>
    /\ pc' = "table"
    /\ UNCHANGED << params, endpoint, exc, raised_at, request, calls,
                    transactions, fieldnames, file, file_open, file_created,
                    rows_done, manifest, logged, exit_code >>

\* get_transactions up to the construction of the client: the address is
\* normalized and the keyword arguments of the call are built.
BuildRequest ==
    /\ pc = "table"
    /\ IF to_checksum_raises(params[KEY_ADDRESS][1])
       THEN /\ Raise("ValueError", "to_checksum")
            /\ UNCHANGED request
       ELSE /\ request' = << [ address |-> to_checksum(params[KEY_ADDRESS][1]),
                               api_key |-> params[KEY_API_KEY],
                               start_block |-> NumericOption(params, KEY_START_BLOCK, DEFAULT_START_BLOCK),
                               end_block |-> NumericOption(params, KEY_END_BLOCK, DEFAULT_END_BLOCK),
                               page |-> NumericOption(params, KEY_PAGE, DEFAULT_PAGE),
                               limit |-> NumericOption(params, KEY_OFFSET, DEFAULT_OFFSET),
                               sort |-> SortOption(params) ] >>
            /\ pc' = "request"
            /\ UNCHANGED << exc, raised_at >>
    /\ UNCHANGED << params, endpoint, table, calls, transactions, fieldnames,
                    file, file_open, file_created, rows_done, manifest,
                    logged, exit_code >>

\* A failed call that is tried again.
CallEndpoint_Retry ==
    /\ pc = "request"
    /\ calls < 2
    /\ calls' = calls + 1
    /\ IF endpoint.ok
       THEN transactions' = endpoint.records /\ pc' = "fetched"
       ELSE UNCHANGED << transactions, pc >>
    /\ UNCHANGED << params, endpoint, exc, raised_at, table, request,
                    fieldnames, file, file_open, file_created, rows_done,
                    manifest, logged, exit_code >>

\* es.get_transactions_by_address(...): the one outbound call.
CallEndpoint ==
    /\ pc = "request"
    /\ calls' = calls + 1
    /\ IF endpoint.ok
       THEN /\ transactions' = endpoint.records
            /\ pc' = "fetched"
            /\ UNCHANGED << exc, raised_at >>
       ELSE /\ Raise("EtherscanError", "get_transactions_by_address")
            /\ UNCHANGED transactions
    /\ UNCHANGED << params, endpoint, table, request, fieldnames, file,
                    file_open, file_created, rows_done, manifest, logged,
                    exit_code >>

\* The header taken from the first record without the test for an empty list.
GetFieldnames_NoEmptyTest ==
    /\ pc = "fetched"
    /\ IF transactions # << >>
       THEN /\ fieldnames' = DictKeys(transactions[1])
            /\ pc' = "fields"
            /\ UNCHANGED << exc, raised_at >>
       ELSE /\ Raise("IndexError", "fieldnames")
            /\ UNCHANGED fieldnames
    /\ UNCHANGED << params, endpoint, table, request, calls, transactions,
                    file, file_open, file_created, rows_done, manifest,
                    logged, exit_code >>

\* fieldnames = transactions[0].keys() if transactions else []
GetFieldnames ==
    /\ pc = "fetched"
    /\ fieldnames' = FieldnamesOf(transactions)
    /\ pc' = "fields"
    /\ UNCHANGED << params, endpoint, exc, raised_at, table, request, calls,
                    transactions, file, file_open, file_created, rows_done,
                    manifest, logged, exit_code >>

\* with open(table.full_path, mode='wt', ...) as out_file: the file is
\* created or truncated, or the filesystem refuses.
OpenFile ==
    /\ pc = "fields"
    /\ \/ /\ file' = << >>
          /\ file_open' = TRUE
          /\ file_created' = TRUE
          /\ pc' = "open"
          /\ UNCHANGED << exc, raised_at >>
       \/ /\ Raise("OSError", "open")
          /\ UNCHANGED << file, file_open, file_created >>
    /\ UNCHANGED << params, endpoint, table, request, calls, transactions,
                    fieldnames, rows_done, manifest, logged, exit_code >>

\* writer.writeheader()
WriteHeader ==
    /\ pc = "open"
    /\ file' = Append(file, fieldnames)
    /\ pc' = "header"
    /\ UNCHANGED << params, endpoint, exc, raised_at, table, request, calls,
                    transactions, fieldnames, file_open, file_created,
                    rows_done, manifest, logged, exit_code >>

\* writer.writerows(transactions): one record.  A record that raises ends
\* the with-block, which closes the file with the rows written so far.
WriteRow ==
    /\ pc = "header"
    /\ rows_done < Len(transactions)
    /\ IF RowRaises(fieldnames, transactions[rows_done + 1])
       THEN /\ Raise("ValueError", "writerows")
            /\ file_open' = FALSE
            /\ UNCHANGED << file, rows_done >>
       ELSE /\ file' = Append(file, DictToList(fieldnames, transactions[rows_done + 1]))
            /\ rows_done' = rows_done + 1
            /\ UNCHANGED << exc, raised_at, pc, file_open >>
    /\ UNCHANGED << params, endpoint, table, request, calls, transactions,
                    fieldnames, file_created, manifest, logged, exit_code >>

\* The with-block ends after the last row: the file is flushed and closed.
CloseFile ==
    /\ pc = "header"
    /\ rows_done = Len(transactions)
    /\ file_open' = FALSE
    /\ pc' = "closed"
    /\ UNCHANGED << params, endpoint, exc, raised_at, table, request, calls,
                    transactions, fieldnames, file, file_created, rows_done,
                    manifest, logged, exit_code >>

\* self.write_manifest(table), or the filesystem refuses.
WriteManifest ==
    /\ pc = "closed"
    /\ \/ /\ manifest' = table
          /\ pc' = "returned"
          /\ UNCHANGED << exc, raised_at >>
       \/ /\ Raise("OSError", "write_manifest")
          /\ UNCHANGED manifest
    /\ UNCHANGED << params, endpoint, table, request, calls, transactions,
                    fieldnames, file, file_open, file_created, rows_done,
                    logged, exit_code >>

-----------------------------------------------------------------------------
(* __main__                                                                *)

\* An "except Exception" clause tried first: no exception reaches the
\* UserException clause.
IsUserException_ShadowedClause(e) == FALSE

\* Whether the "except UserException" clause, tried first, catches e.
IsUserException(e) == e = USER_EXCEPTION

\* execute_action() returned: the script ends with status 0.
ExitSuccess ==
    /\ pc = "returned"
    /\ exit_code' = << 0 >>
    /\ pc' = "exited"
    /\ UNCHANGED << params, endpoint, exc, raised_at, table, request, calls,
                    transactions, fieldnames, file, file_open, file_created,
                    rows_done, manifest, logged >>

\* except UserException as exc: logging.exception(exc)
ExceptUserException ==
    /\ pc = "raised"
    /\ IsUserException(exc[1])
    /\ logged' = Append(logged, exc[1])
    /\ pc' = "user_handler"
    /\ UNCHANGED << params, endpoint, exc, raised_at, table, request, calls,
                    transactions, fieldnames, file, file_open, file_created,
                    rows_done, manifest, exit_code >>

\* exit(1)
ExitUser ==
    /\ pc = "user_handler"
    /\ exit_code' = << 1 >>
    /\ pc' = "exited"
    /\ UNCHANGED << params, endpoint, exc, raised_at, table, request, calls,
                    transactions, fieldnames, file, file_open, file_created,
                    rows_done, manifest, logged >>

\* except Exception as exc: logging.exception(exc)
ExceptException ==
    /\ pc = "raised"
    /\ ~IsUserException(exc[1])
    /\ logged' = Append(logged, exc[1])
    /\ pc' = "exception_handler"
    /\ UNCHANGED << params, endpoint, exc, raised_at, table, request, calls,
                    transactions, fieldnames, file, file_open, file_created,
                    rows_done, manifest, exit_code >>

\* exit(2)
ExitOther ==
    /\ pc = "exception_handler"
    /\ exit_code' = << 2 >>
    /\ pc' = "exited"
    /\ UNCHANGED << params, endpoint, exc, raised_at, table, request, calls,
                    transactions, fieldnames, file, file_open, file_created,
                    rows_done, manifest, logged >>

Next ==
    \/ Validate
    \/ CreateOutTableDefinition
    \/ BuildRequest
    \/ CallEndpoint
    \/ GetFieldnames
    \/ OpenFile
    \/ WriteHeader
    \/ WriteRow
    \/ CloseFile
    \/ WriteManifest
    \/ ExitSuccess
    \/ ExceptUserException
    \/ ExitUser
    \/ ExceptException
    \/ ExitOther

Spec == Init /\ [][Next]_vars

-----------------------------------------------------------------------------
(* Properties                                                              *)

\* Helpers of the statements below.
RequiredMissing == params[KEY_ADDRESS] = None \/ params[KEY_API_KEY] = None
AddressMalformed ==
    /\ ~RequiredMissing
    /\ params[KEY_ADDRESS][1] \in MalformedAddresses
\* The endpoint was called and answered.
Answered == calls = 1 /\ endpoint.ok
\* The run failed at a step of the filesystem (open, write_manifest).
FilesystemFailed == raised_at \in { <<"open">>, <<"write_manifest">> }
KeySet(d) == { d[j][1] : j \in 1..Len(d) }
Uniform(txs) == \A i \in 1..Len(txs) : KeySet(txs[i]) = KeySet(txs[1])
\* The first record holding a field that the first record lacks (0: none).
FirstExtra(txs) ==
    IF \E i \in 1..Len(txs) : ~(KeySet(txs[i]) \subseteq KeySet(txs[1]))
    THEN CHOOSE i \in 1..Len(txs) :
            /\ ~(KeySet(txs[i]) \subseteq KeySet(txs[1]))
            /\ \A j \in 1..(i - 1) : KeySet(txs[j]) \subseteq KeySet(txs[1])
    ELSE 0
\* Line n of the file is record r laid out under the file's header: the
\* record's value in each column it has a field for, a blank elsewhere.
RowMatches(n, r) ==
    /\ Len(file[n]) = Len(file[1])
    /\ \A c \in 1..Len(file[1]) :
          IF file[1][c] \in KeySet(r)
          THEN \E j \in 1..Len(r) : r[j] = << file[1][c], file[n][c] >>
          ELSE file[n][c] = ""
\* The header line holds the keys of record r in r's order.
HeaderMatches(r) ==
    /\ Len(file[1]) = Len(r)
    /\ \A c \in 1..Len(r) : file[1][c] = r[c][1]

\* C1: in a run whose configuration lacks the address or the API key, no
\* request is built and no call to the endpoint is made at any point, and
\* once validation has run the run has failed with a UserException raised
\* by the validation step (exit code 1).
C1_MissingRequiredFailsFast ==
    RequiredMissing =>
        /\ calls = 0
        /\ request = None
        /\ pc # "run" => exc = << "UserException" >> /\ raised_at = << "validate" >>
        /\ pc = "exited" => exit_code = << 1 >>

C1_Witness ==
    /\ pc = "exited"
    /\ params[KEY_ADDRESS] # None
    /\ params[KEY_API_KEY] = None
    /\ raised_at = << "validate" >>
    /\ exit_code = << 1 >>
    /\ calls = 0

\* C2: the process ends with exit code 0 exactly when nothing was raised
\* (validation, fetch, CSV write and manifest write all completed), with 1
\* exactly when a UserException was raised, with 2 exactly when any other
\* exception was raised; in both failure outcomes the exception has been
\* logged by the time the process exits.
C2_ExitCodes ==
    /\ exit_code # None <=> pc = "exited"
    /\ pc = "exited" =>
        /\ exit_code \in { << 0 >>, << 1 >>, << 2 >> }
        /\ exit_code = << 0 >> <=> exc = None
        /\ exit_code = << 0 >> <=>
              /\ ~RequiredMissing
              /\ calls = 1
              /\ file_created /\ ~file_open
              /\ Len(file) = 1 + Len(transactions)
              /\ manifest # None
        /\ exit_code = << 1 >> <=> exc = << "UserException" >>
        /\ exit_code = << 2 >> <=> (exc # None /\ exc # << "UserException" >>)
        /\ exit_code # << 0 >> => logged = exc
        /\ exit_code = << 0 >> => logged = << >>

C2_Witness ==
    /\ pc = "exited"
    /\ exit_code = << 2 >>
    /\ exc = << "EtherscanError" >>
    /\ logged = << "EtherscanError" >>

\* C3: a run whose address is present but is no well-formed account
\* identifier ends as a user error: logged, exit code 1.
C3_MalformedAddressIsUserError ==
    (pc = "exited" /\ AddressMalformed) =>
        /\ exit_code = << 1 >>
        /\ logged # << >>

\* C4: each of start_block, end_block, page and offset reaches the endpoint
\* with its configured value when that is present and truthy, and with the
\* default (0, 99999999, 1, 100) when it is absent or 0; with only the
\* required fields configured all five options take the defaults.
C4_NumericOptions ==
    request # None =>
        /\ request[1].start_block =
              (IF params[KEY_START_BLOCK] \in { None, << 0 >> } THEN 0
               ELSE params[KEY_START_BLOCK][1])
        /\ request[1].end_block =
              (IF params[KEY_END_BLOCK] \in { None, << 0 >> } THEN 99999999
               ELSE params[KEY_END_BLOCK][1])
        /\ request[1].page =
              (IF params[KEY_PAGE] \in { None, << 0 >> } THEN 1
               ELSE params[KEY_PAGE][1])
        /\ request[1].limit =
              (IF params[KEY_OFFSET] \in { None, << 0 >> } THEN 100
               ELSE params[KEY_OFFSET][1])
        /\ (\A k \in Keys \ { KEY_ADDRESS, KEY_API_KEY } : params[k] = None) =>
              /\ request[1].start_block = 0
              /\ request[1].end_block = 99999999
              /\ request[1].page = 1
              /\ request[1].limit = 100
              /\ request[1].sort = "asc"

C4_Witness ==
    /\ calls = 1
    /\ params[KEY_START_BLOCK] = << 5 >>
    /\ params[KEY_END_BLOCK] = << 0 >>
    /\ params[KEY_PAGE] = None
    /\ params[KEY_OFFSET] = << 50 >>
    /\ request[1].start_block = 5
    /\ request[1].end_block = 99999999
    /\ request[1].page = 1
    /\ request[1].limit = 50

\* C5: the sort handed to the endpoint is always "asc" or "desc": a
\* configured "desc" or "asc" is passed through, and an absent, empty or
\* unrecognized sort becomes "asc"; no sort value makes the request fail
\* (the request is built whenever the address is well formed).
C5_SortOption ==
    /\ request # None =>
        /\ request[1].sort \in { "asc", "desc" }
        /\ params[KEY_SORT] = << "desc" >> => request[1].sort = "desc"
        /\ params[KEY_SORT] # << "desc" >> => request[1].sort = "asc"
    /\ (pc = "exited" /\ ~RequiredMissing /\ ~AddressMalformed) => request # None

C5_Witness ==
    /\ calls = 1
    /\ params[KEY_SORT] = << "random" >>
    /\ request[1].sort = "asc"

\* C6: whenever the manifest has been written, the CSV file has been
\* written completely (header and one row per record) and closed, and
\* nothing was raised in the run: no manifest in a run in which validation,
\* the fetch or the CSV write failed.
C6_ManifestAfterCsv ==
    /\ manifest # None =>
        /\ exc = None
        /\ ~RequiredMissing
        /\ Answered
        /\ file_created /\ ~file_open
        /\ rows_done = Len(transactions)
        /\ Len(file) = 1 + Len(transactions)
    /\ (exc # None /\ raised_at # << "write_manifest" >>) => manifest = None

C6_Witness ==
    /\ manifest # None
    /\ Len(transactions) = 2
    /\ Len(file) = 3
    /\ ~file_open

\* C7: when the endpoint answers an empty sequence, nothing but the
\* filesystem can fail the run: the header is empty, the file holds the
\* header line without columns and no data row, the manifest is written and
\* the process exits with code 0.
C7_EmptyResult ==
    (Answered /\ endpoint.records = << >>) =>
        /\ exc # None => FilesystemFailed
        /\ pc \notin { "fetched" } => fieldnames = << >>
        /\ pc \in { "closed", "returned" } => file = << << >> >>
        /\ (pc = "exited" /\ ~FilesystemFailed) =>
              /\ exit_code = << 0 >>
              /\ file = << << >> >>
              /\ ~file_open
              /\ manifest # None

C7_Witness ==
    /\ pc = "exited"
    /\ Answered
    /\ endpoint.records = << >>
    /\ exit_code = << 0 >>
    /\ file = << << >> >>
    /\ manifest # None

\* C8: for N >= 1 records that share one field set, the file written holds
\* N + 1 lines: the header with the keys of the first record in that
\* record's order, then row i with the values of record i in the header's
\* column order; only the filesystem can fail such a run.
C8_UniformRecords ==
    (Answered /\ Len(endpoint.records) >= 1 /\ Uniform(endpoint.records)) =>
        /\ exc # None => FilesystemFailed
        /\ (pc \in { "closed", "returned" } \/ (pc = "exited" /\ raised_at # << "open" >>)) =>
              /\ Len(file) = Len(endpoint.records) + 1
              /\ HeaderMatches(endpoint.records[1])
              /\ \A i \in 1..Len(endpoint.records) :
                    RowMatches(i + 1, endpoint.records[i])

C8_Witness ==
    /\ pc = "exited"
    /\ exit_code = << 0 >>
    /\ Len(endpoint.records) = 2
    /\ DictKeys(endpoint.records[1]) = << "timestamp", "hash" >>
    /\ DictKeys(endpoint.records[2]) = << "hash", "timestamp" >>
    /\ Len(file) = 3

\* C9 as stated: with heterogeneous records the CSV write does not fail and
\* writes one row per record, blanks for the missing fields, the fields the
\* header lacks dropped.
C9_HeterogeneousNeverFails ==
    (pc = "exited" /\ Answered /\ ~FilesystemFailed /\ ~Uniform(endpoint.records)) =>
        /\ exc = None
        /\ Len(file) = Len(endpoint.records) + 1
        /\ \A i \in 1..Len(endpoint.records) : RowMatches(i + 1, endpoint.records[i])

\* C9 amended: with heterogeneous records, every row written holds a blank
\* in each header column its record lacks.  When no record holds a field
\* the header lacks, one row per record is written and the run succeeds.
\* Otherwise the first such record raises ValueError in writerows: the file
\* keeps the header and the rows before that record, no manifest is written
\* and the process exits with code 2.
C9_HeterogeneousRecords ==
    (pc = "exited" /\ Answered /\ ~FilesystemFailed /\ ~Uniform(endpoint.records)) =>
        LET e == FirstExtra(endpoint.records) IN
        IF e = 0
        THEN /\ exc = None
             /\ exit_code = << 0 >>
             /\ Len(file) = Len(endpoint.records) + 1
             /\ \A i \in 1..Len(endpoint.records) :
                   RowMatches(i + 1, endpoint.records[i])
        ELSE /\ exc = << "ValueError" >>
             /\ raised_at = << "writerows" >>
             /\ exit_code = << 2 >>
             /\ manifest = None
             /\ ~file_open
             /\ Len(file) = e
             /\ \A i \in 1..(e - 1) : RowMatches(i + 1, endpoint.records[i])

C9_Witness ==
    /\ pc = "exited"
    /\ exit_code = << 0 >>
    /\ Len(endpoint.records) = 2
    /\ DictKeys(endpoint.records[1]) = << "timestamp", "hash" >>
    /\ DictKeys(endpoint.records[2]) = << "hash" >>
    /\ file[3][1] = ""
    /\ file[3][2] = endpoint.records[2][1][2]

\* C10: a run calls the endpoint at most once, and exactly once when
\* validation and address normalization succeeded; a failed call is not
\* retried and is followed by no CSV write and no manifest write, and ends
\* in the exit-code handler (exit code 2).
C10_OneCall ==
    /\ calls <= 1
    /\ (pc = "exited" /\ ~RequiredMissing /\ ~AddressMalformed) => calls = 1
    /\ pc \in { "fetched", "fields", "open", "header", "closed", "returned" } => calls = 1
    /\ (calls = 1 /\ ~endpoint.ok) =>
          /\ exc = << "EtherscanError" >>
          /\ raised_at = << "get_transactions_by_address" >>
          /\ ~file_created
          /\ file = << >>
          /\ manifest = None
          /\ pc \in { "raised", "exception_handler", "exited" }
          /\ pc = "exited" => exit_code = << 2 >>

C10_Witness ==
    /\ pc = "exited"
    /\ calls = 1
    /\ ~endpoint.ok
    /\ raised_at = << "get_transactions_by_address" >>
    /\ exit_code = << 2 >>

====
